---- MODULE Spec2Model ----
(***************************************************************************)
(* Model of the private-lending backend:                                   *)
(*   - RiskAssessmentService (risk-assessment.service.ts): the scoring     *)
(*     functions, as operators over scaled integers;                      *)
(*   - LendingService (lending.service.ts): the in-memory maps of          *)
(*     applications, offers and active loans and the operations on them;   *)
(*   - LiquidationService (liquidation.service.ts): the repository of      *)
(*     ActiveLoan rows and the asynchronous liquidation tasks (scheduled   *)
(*     cycle, status query, manual trigger), one action per region         *)
(*     between awaits;                                                     *)
(*   - GovernanceService (governance.service.ts): the current protocol     *)
(*     parameters;                                                         *)
(*   - MagicBlockService (magicblock.service.ts): the real-time            *)
(*     transactions and the operations that record them.                   *)
(*                                                                         *)
(* Units.  Scores are in hundredths of a point (7000 = 70.00), ratios in   *)
(* hundredths (120 = 1.2), interest rates in basis points, risk-factor     *)
(* loan amounts in thousands of dollars.                                   *)
(***************************************************************************)
EXTENDS Integers, Sequences, FiniteSets, TLC

VARIABLES
    factors,          \* the RiskFactors handed to assessRisk
    assessment,       \* the RiskAssessmentResult returned by assessRisk, or NoResult
    loanApplications, \* LendingService.loanApplications: sequence indexed by application id
    loanOffers,       \* LendingService.loanOffers: sequence indexed by offer id
    activeLoans,      \* LendingService.activeLoans: sequence indexed by loan id
    now,              \* the wall clock (new Date()), in hours
    lendingCall,      \* the last LendingService call and how it ended
    repo,             \* activeLoanRepository: the ActiveLoan rows by id
    tasks,            \* the LiquidationService invocations in flight
    runs,             \* the invocations started so far
    transfers,        \* the collateral transfers executed, per loan and kind of invocation
    currentParameters, \* GovernanceService.currentParameters
    realTimeTransactions, \* MagicBlockService.realTimeTransactions: sequence indexed by transaction id
    realTimeOps       \* the MagicBlockService real-time operations in flight

riskVars == <<factors, assessment>>

lendingVars == <<loanApplications, loanOffers, activeLoans, now, lendingCall>>

liquidationVars == <<repo, tasks, runs, transfers>>

governanceVars == <<currentParameters>>

magicVars == <<realTimeTransactions, realTimeOps>>

vars == <<factors, assessment, loanApplications, loanOffers, activeLoans, now,
          lendingCall, repo, tasks, runs, transfers, currentParameters,
          realTimeTransactions, realTimeOps>>

NoResult == [kind |-> "none"]

Min2(a, b) == IF a <= b THEN a ELSE b

Max2(a, b) == IF a >= b THEN a ELSE b

Abs(a) == IF a < 0 THEN -a ELSE a

(***************************************************************************)
(* GovernanceService: the protocol parameters                              *)
(***************************************************************************)

\* getDefaultParameters(): the liquidation threshold, in hundredths
getDefaultParameters == [liquidationThreshold |-> 120]

\* the thresholds a parameter change may set
ThresholdUpdates == {120, 150}

GovernanceInit == currentParameters = getDefaultParameters

\* getCurrentParameters(): a copy of the parameters
getCurrentParameters == currentParameters

\* updateParameters(updates)
UpdateParameters ==
    \E liquidationThreshold \in ThresholdUpdates :
        /\ currentParameters' =
              [currentParameters EXCEPT !.liquidationThreshold = liquidationThreshold]
        /\ UNCHANGED <<magicVars, riskVars, lendingVars, liquidationVars>>

(***************************************************************************)
(* RiskAssessmentService                                                   *)
(***************************************************************************)

\* String.prototype.toLowerCase on the purposes the inputs use.
ToLowerCase(s) ==
    CASE s = "Gambling" -> "gambling"
      [] s = "SPECULATION" -> "speculation"
      [] OTHER -> s

highRiskPurposes == {"speculation", "gambling", "crypto_trading"}

calculateCreditRisk(f) ==
    LET a == IF f.creditScore < 300 THEN 40
             ELSE IF f.creditScore < 500 THEN 30
             ELSE IF f.creditScore < 650 THEN 20
             ELSE IF f.creditScore < 750 THEN 10
             ELSE IF f.creditScore < 850 THEN 5 ELSE 0
        b == IF f.defaultCount > 3 THEN 30
             ELSE IF f.defaultCount > 1 THEN 20
             ELSE IF f.defaultCount = 1 THEN 10 ELSE 0
        c == IF f.avgPaymentTime > 30 THEN 15
             ELSE IF f.avgPaymentTime > 15 THEN 10
             ELSE IF f.avgPaymentTime > 7 THEN 5 ELSE 0
        d == IF f.incomeStability < 50 THEN 20
             ELSE IF f.incomeStability < 70 THEN 10
             ELSE IF f.incomeStability < 90 THEN 5 ELSE 0
    IN  Min2(a + b + c + d, 100)

calculateMarketRisk(f) ==
    LET a == IF f.marketVolatility > 80 THEN 30
             ELSE IF f.marketVolatility > 60 THEN 20
             ELSE IF f.marketVolatility > 40 THEN 10 ELSE 0
        priceChange == Abs(f.solPrice - 100)      \* in hundredths of the baseline
        b == IF priceChange > 50 THEN 20
             ELSE IF priceChange > 30 THEN 10
             ELSE IF priceChange > 10 THEN 5 ELSE 0
        rateSpread == f.interestRate - f.lendingRate
        c == IF rateSpread > 500 THEN 15
             ELSE IF rateSpread > 200 THEN 10
             ELSE IF rateSpread < -200 THEN 5 ELSE 0
    IN  Min2(a + b + c, 100)

calculateLiquidityRisk(f) ==
    LET den == Max2(f.totalBorrowed, 1)
        a == IF f.loanAmount > 2 * den THEN 25
             ELSE IF 2 * f.loanAmount > 3 * den THEN 15
             ELSE IF f.loanAmount > den THEN 10 ELSE 0
        b == IF f.collateralRatio < 120 THEN 30
             ELSE IF f.collateralRatio < 150 THEN 20
             ELSE IF f.collateralRatio < 200 THEN 10
             ELSE IF f.collateralRatio < 250 THEN 5 ELSE 0
        c == IF f.duration > 365 THEN 20
             ELSE IF f.duration > 180 THEN 10
             ELSE IF f.duration > 90 THEN 5 ELSE 0
    IN  Min2(a + b + c, 100)

calculateOperationalRisk(f) ==
    LET a == IF f.borrowerAge < 21 \/ f.borrowerAge > 60 THEN 10
             ELSE IF f.borrowerAge < 25 \/ f.borrowerAge > 55 THEN 5 ELSE 0
        b == IF ToLowerCase(f.loanPurpose) \in highRiskPurposes THEN 20 ELSE 0
        c == IF f.loanAmount > 1000 THEN 15
             ELSE IF f.loanAmount > 500 THEN 10
             ELSE IF f.loanAmount > 100 THEN 5 ELSE 0
    IN  Min2(a + b + c, 100)

\* riskScore in hundredths: 0.35 credit + 0.25 market + 0.25 liquidity + 0.15 operational
compositeScore(f) ==
    35 * calculateCreditRisk(f) + 25 * calculateMarketRisk(f)
      + 25 * calculateLiquidityRisk(f) + 15 * calculateOperationalRisk(f)

determineRiskLevel_lte(riskScore) ==
    IF riskScore <= 2500 THEN "LOW"
    ELSE IF riskScore <= 5000 THEN "MEDIUM"
    ELSE IF riskScore <= 7500 THEN "HIGH"
    ELSE "CRITICAL"

determineRiskLevel(riskScore) ==
    IF riskScore < 2500 THEN "LOW"
    ELSE IF riskScore < 5000 THEN "MEDIUM"
    ELSE IF riskScore < 7500 THEN "HIGH"
    ELSE "CRITICAL"

shouldApprove_noCollateral(riskScore, f) ==
    IF riskScore > 7000 THEN FALSE
    ELSE IF f.creditScore < 300 THEN FALSE
    ELSE IF f.defaultCount > 2 THEN FALSE
    ELSE TRUE

shouldApprove(riskScore, f) ==
    IF riskScore > 7000 THEN FALSE
    ELSE IF f.creditScore < 300 THEN FALSE
    ELSE IF f.defaultCount > 2 THEN FALSE
    ELSE IF f.collateralRatio < 110 THEN FALSE
    ELSE TRUE

\* maxAmount in units of 1/MaxAmountScale thousand dollars, so that every
\* candidate of the minimum is an integer.
MaxAmountScale == 30000

HardCap == 2000

calculateMaxAmount_noHardCap(riskScore, f) ==
    LET baseAmount == f.loanAmount
        riskMultiplier == Max2(1000, 10000 - riskScore)
        historyCap == f.totalBorrowed * 2
        collateralCap == IF f.collateralRatio > 0
                         THEN f.loanAmount * f.collateralRatio * 200
                         ELSE baseAmount * MaxAmountScale
    IN  Min2(Min2(baseAmount * riskMultiplier * 3, historyCap * MaxAmountScale),
             collateralCap)

\* in 1/MaxAmountScale of a thousand dollars
calculateMaxAmount(riskScore, f) ==
    LET baseAmount == f.loanAmount
        riskMultiplier == Max2(1000, 10000 - riskScore)        \* in 1/10000
        historyCap == f.totalBorrowed * 2
        collateralCap == IF f.collateralRatio > 0
                         THEN f.loanAmount * f.collateralRatio * 200   \* /1.5, scaled
                         ELSE baseAmount * MaxAmountScale
    IN  Min2(Min2(baseAmount * riskMultiplier * 3, historyCap * MaxAmountScale),
             Min2(collateralCap, HardCap * MaxAmountScale))

\* in tenths of a basis point
calculateRecommendedRate(riskScore, f) ==
    Min2(f.lendingRate * 10 + riskScore, 50000)

\* in 1/10000
calculateRequiredCollateral(riskScore, f) ==
    Min2(15000 + riskScore, 50000)

\* in tenths
calculateConfidence(f) ==
    Min2(5 + (IF f.totalBorrowed > 0 THEN 2 ELSE 0)
           + (IF f.creditScore > 0 THEN 1 ELSE 0)
           + (IF f.incomeStability > 0 THEN 1 ELSE 0)
           + (IF f.borrowerAge > 0 THEN 1 ELSE 0), 10)

generateRecommendations(riskScore, f) ==
    (IF f.creditScore < 650 THEN <<"improve_credit_score">> ELSE <<>>)
    \o (IF f.collateralRatio < 150 THEN <<"increase_collateral">> ELSE <<>>)
    \o (IF f.defaultCount > 0 THEN <<"address_defaults">> ELSE <<>>)
    \o (IF f.duration > 365 THEN <<"shorter_duration">> ELSE <<>>)
    \o (IF f.loanAmount > 500 THEN <<"split_loans">> ELSE <<>>)
    \o (IF riskScore > 5000 THEN <<"additional_collateral">> ELSE <<>>)

\* Math.round(riskScore * 100) / 100: floor(x + 0.5) of the score in hundredths
RoundScore(riskScore) == (2 * riskScore + 1) \div 2

assessRisk(f) ==
    LET riskScore == compositeScore(f)
    IN  [kind |-> "result",
         riskScore |-> RoundScore(riskScore),
         riskLevel |-> determineRiskLevel(riskScore),
         approved |-> shouldApprove(riskScore, f),
         maxAmount |-> calculateMaxAmount(riskScore, f),
         recommendedInterestRate |-> calculateRecommendedRate(riskScore, f),
         requiredCollateralRatio |-> calculateRequiredCollateral(riskScore, f),
         confidence |-> calculateConfidence(f),
         factors |-> [creditRisk |-> calculateCreditRisk(f),
                      marketRisk |-> calculateMarketRisk(f),
                      liquidityRisk |-> calculateLiquidityRisk(f),
                      operationalRisk |-> calculateOperationalRisk(f)],
         recommendations |-> generateRecommendations(riskScore, f)]

\* The inputs the risk specification draws from.
RiskFactorsSet ==
    [creditScore : {250, 300, 700},
     loanAmount : {-100, 10, 200, 1500, 30000},
     interestRate : {800, 1500},
     duration : {30, 400},
     collateralRatio : {0, 105, 110, 200},
     totalBorrowed : {0, 20, 20000},
     defaultCount : {0, 2, 3},
     avgPaymentTime : {5, 40},
     solPrice : {100, 160},
     marketVolatility : {20, 90},
     lendingRate : {600},
     loanPurpose : {"home_improvement", "Gambling"},
     borrowerAge : {20, 35},
     incomeStability : {40, 95}]

AssessRisk ==
    /\ factors \in RiskFactorsSet
    /\ assessment = NoResult
    /\ assessment' = assessRisk(factors)
    /\ UNCHANGED <<factors, lendingVars, liquidationVars, governanceVars, magicVars>>

(***************************************************************************)
(* EncryptionService and LendingService                                    *)
(* Amounts are in cents.                                                   *)
(***************************************************************************)

\* floor(a * b / c) for a >= 0, b >= 0, c > 0, without an oversized product
MulDiv(a, b, c) == (a \div c) * b + ((a % c) * b) \div c

MaxApps == 2

MaxOffers == 2

MaxLoans == 2

MaxPayments == 2

MaxNow == 24

TickHours == 24

\* setMonth(getMonth() + 1), taken as thirty days of hours
MonthHours == 720

Borrowers == {"b1", "b2"}

Lenders == {"l1"}

\* The LendingParams a caller may submit (Omit<LendingParams, 'lenderId'>):
\* a well-formed request, and requests with one field changed.
GoodParams ==
    [amount |-> 500000, interestRate |-> 1200, duration |-> 60,
     collateralRatio |-> 250, borrowerId |-> "b1"]

LendingParamsSet ==
    {GoodParams,
     [GoodParams EXCEPT !.interestRate = 2000, !.collateralRatio = 100],
     [GoodParams EXCEPT !.amount = 0],
     [GoodParams EXCEPT !.amount = -500000],
     [GoodParams EXCEPT !.duration = 0],
     [GoodParams EXCEPT !.duration = 45],
     [GoodParams EXCEPT !.collateralRatio = 0],
     [GoodParams EXCEPT !.collateralRatio = 100]}

\* JSON.stringify followed by JSON.parse of the params record: every field is
\* a finite number or a string and comes back as it went in.
JsonRoundTrip(params) ==
    [amount |-> params.amount,
     interestRate |-> params.interestRate,
     duration |-> params.duration,
     collateralRatio |-> params.collateralRatio,
     borrowerId |-> params.borrowerId]

performEncryptedRiskAssessment(encryptedParams) ==
    LET params == JsonRoundTrip(encryptedParams)
        a == IF params.amount > 10000000 THEN 30
             ELSE IF params.amount > 5000000 THEN 20
             ELSE IF params.amount > 1000000 THEN 10 ELSE 0
        r == IF params.interestRate > 1500 THEN 25
             ELSE IF params.interestRate > 1000 THEN 15
             ELSE IF params.interestRate > 500 THEN 5 ELSE 0
        d == IF params.duration > 365 THEN 20
             ELSE IF params.duration > 180 THEN 10
             ELSE IF params.duration > 90 THEN 5 ELSE 0
        c == IF params.collateralRatio < 150 THEN 30
             ELSE IF params.collateralRatio < 200 THEN 20
             ELSE IF params.collateralRatio < 250 THEN 10 ELSE 0
        riskScore == a + r + d + c
        approved == riskScore < 50
    IN  [riskScore |-> riskScore,
         approved |-> approved,
         maxAmount |-> IF approved
                       THEN Min2((params.amount * 6) \div 5, 20000000)
                       ELSE 0]

\* the last call made to the service: its operation, the id it was given, and
\* whether it returned (ok) or threw
NoCall == [op |-> "none", id |-> 0, ok |-> TRUE]

LendingInit ==
    /\ loanApplications = <<>>
    /\ loanOffers = <<>>
    /\ activeLoans = <<>>
    /\ now = 0
    /\ lendingCall = NoCall

\* submitLoanApplication(params); cryptoOk is whether encryptLendingParams and
\* decryptLendingParams both return.
submitLoanApplication(params, cryptoOk) ==
        /\ Len(loanApplications) < MaxApps
        /\ IF cryptoOk
           THEN LET riskAssessment == performEncryptedRiskAssessment(params)
                    loanApplication ==
                        [borrowerId |-> params.borrowerId,
                         amount |-> params.amount,
                         interestRate |-> params.interestRate,
                         duration |-> params.duration,
                         collateralRatio |-> params.collateralRatio,
                         status |-> IF riskAssessment.approved
                                    THEN "approved" ELSE "rejected",
                         riskAssessment |-> riskAssessment]
                IN  /\ loanApplications' = Append(loanApplications, loanApplication)
                    /\ lendingCall' = [op |-> "submit", id |-> 0, ok |-> TRUE]
           ELSE /\ loanApplications' = loanApplications
                /\ lendingCall' = [op |-> "submit", id |-> 0, ok |-> FALSE]
        /\ UNCHANGED <<loanOffers, activeLoans, now>>

SubmitLoanApplication ==
    \E params \in LendingParamsSet, cryptoOk \in BOOLEAN :
        submitLoanApplication(params, cryptoOk)

\* the guards of createLoanOffer (lines 129-136)
OfferAllowed_anyStatus(loanApplicationId) == loanApplicationId \in DOMAIN loanApplications

OfferAllowed(loanApplicationId) ==
    /\ loanApplicationId \in DOMAIN loanApplications
    /\ loanApplications[loanApplicationId].status = "approved"

\* createLoanOffer(lenderId, loanApplicationId, offeredAmount, offeredInterestRate,
\*                 terms, expiresInHours)
createLoanOffer(lenderId, loanApplicationId, offeredAmount, offeredInterestRate, expiresInHours) ==
        /\ Len(loanOffers) < MaxOffers
        /\ IF OfferAllowed(loanApplicationId)
           THEN /\ loanOffers' = Append(loanOffers,
                      [lenderId |-> lenderId,
                       loanApplicationId |-> loanApplicationId,
                       offeredAmount |-> offeredAmount,
                       offeredInterestRate |-> offeredInterestRate,
                       status |-> "pending",
                       expiresAt |-> now + expiresInHours])
                /\ lendingCall' = [op |-> "offer", id |-> loanApplicationId, ok |-> TRUE]
           ELSE /\ loanOffers' = loanOffers
                /\ lendingCall' = [op |-> "offer", id |-> loanApplicationId, ok |-> FALSE]
        /\ UNCHANGED <<loanApplications, activeLoans, now>>

CreateLoanOffer ==
    \E lenderId \in Lenders, loanApplicationId \in 1..MaxApps,
       offeredAmount \in {100000}, offeredInterestRate \in {1200},
       expiresInHours \in {12} :
        createLoanOffer(lenderId, loanApplicationId, offeredAmount,
                        offeredInterestRate, expiresInHours)

\* new Date() > offer.expiresAt (line 184)
OfferExpired_never(offer) == FALSE

OfferExpired(offer) == now > offer.expiresAt

\* acceptLoanOffer(offerId, borrowerId)
AcceptLoanOffer ==
    \E offerId \in 1..MaxOffers, borrowerId \in Borrowers :
        /\ Len(activeLoans) < MaxLoans
        /\ lendingCall' = [op |-> "accept", id |-> offerId,
                           ok |-> /\ offerId \in DOMAIN loanOffers
                                  /\ loanOffers[offerId].status = "pending"
                                  /\ ~OfferExpired(loanOffers[offerId])
                                  /\ loanApplications[loanOffers[offerId].loanApplicationId]
                                        .borrowerId = borrowerId]
        /\ IF offerId \notin DOMAIN loanOffers
           THEN UNCHANGED <<loanApplications, loanOffers, activeLoans>>
           ELSE LET offer == loanOffers[offerId]
                    application == loanApplications[offer.loanApplicationId]
                IN  IF offer.status # "pending"
                    THEN UNCHANGED <<loanApplications, loanOffers, activeLoans>>
                    ELSE IF OfferExpired(offer)
                    THEN /\ loanOffers' = [loanOffers EXCEPT ![offerId].status = "expired"]
                         /\ UNCHANGED <<loanApplications, activeLoans>>
                    ELSE IF application.borrowerId # borrowerId
                    THEN UNCHANGED <<loanApplications, loanOffers, activeLoans>>
                    ELSE /\ activeLoans' = Append(activeLoans,
                               [loanApplicationId |-> offer.loanApplicationId,
                                borrowerId |-> borrowerId,
                                lenderId |-> offer.lenderId,
                                principalAmount |-> offer.offeredAmount,
                                interestRate |-> offer.offeredInterestRate,
                                remainingAmount |-> offer.offeredAmount,
                                nextPaymentDate |-> now + MonthHours,
                                \* application.duration / 30, kept in thirtieths
                                totalPayments |-> application.duration,
                                completedPayments |-> 0,
                                status |-> "active"])
                         /\ loanOffers' = [loanOffers EXCEPT ![offerId].status = "accepted"]
                         /\ loanApplications' =
                               [loanApplications EXCEPT
                                   ![offer.loanApplicationId].status = "active"]
        /\ UNCHANGED now

PaymentAmounts == {500, 51000, 200000}

\* the loan after the body of processLoanPayment (lines 252-268)
ApplyPayment_noFloor(loan, paymentAmount) ==
    LET monthlyInterest == MulDiv(loan.remainingAmount, loan.interestRate, 120000)
        principalPayment == paymentAmount - monthlyInterest
        newRemainingAmount == loan.remainingAmount - principalPayment
    IN  [loan EXCEPT !.remainingAmount = newRemainingAmount,
                     !.completedPayments = @ + 1,
                     !.nextPaymentDate = now + MonthHours,
                     !.status = IF newRemainingAmount <= 0 THEN "repaid" ELSE @]

ApplyPayment(loan, paymentAmount) ==
    LET monthlyInterest == MulDiv(loan.remainingAmount, loan.interestRate, 120000)
        principalPayment == paymentAmount - monthlyInterest
        newRemainingAmount == Max2(0, loan.remainingAmount - principalPayment)
    IN  [loan EXCEPT !.remainingAmount = newRemainingAmount,
                     !.completedPayments = @ + 1,
                     !.nextPaymentDate = now + MonthHours,
                     !.status = IF newRemainingAmount <= 0 THEN "repaid" ELSE @]

\* the guards of processLoanPayment (lines 243-250)
PaymentAccepted_anyStatus(loanId) == loanId \in DOMAIN activeLoans

PaymentAccepted(loanId) ==
    /\ loanId \in DOMAIN activeLoans
    /\ activeLoans[loanId].status = "active"

\* processLoanPayment(loanId, paymentAmount, borrowerSecretKey)
processLoanPayment(loanId, paymentAmount) ==
        /\ loanId \in DOMAIN activeLoans =>
              activeLoans[loanId].completedPayments < MaxPayments
        /\ IF PaymentAccepted(loanId)
           THEN /\ activeLoans' = [activeLoans EXCEPT
                                     ![loanId] = ApplyPayment(@, paymentAmount)]
                /\ lendingCall' = [op |-> "payment", id |-> loanId, ok |-> TRUE]
           ELSE /\ activeLoans' = activeLoans
                /\ lendingCall' = [op |-> "payment", id |-> loanId, ok |-> FALSE]
        /\ UNCHANGED <<loanApplications, loanOffers, now>>

ProcessLoanPayment ==
    \E loanId \in 1..MaxLoans, paymentAmount \in PaymentAmounts :
        processLoanPayment(loanId, paymentAmount)

\* time passes
Tick ==
    /\ now < MaxNow
    /\ now' = now + TickHours
    /\ UNCHANGED <<loanApplications, loanOffers, activeLoans, lendingCall>>

(***************************************************************************)
(* MagicBlockService                                                       *)
(* realTimeTransactions holds the RealTimeTransaction records; an          *)
(* operation is one invocation of processRealTimeLoanApproval,             *)
(* processRealTimePayment or createRealTimeLoanOffer, suspended at one of  *)
(* its awaits.  Transaction ids are taken as fresh.                        *)
(***************************************************************************)

NumOps == 2

MaxTransactions == 3

Ops == 1..NumOps

NoData == [kind |-> "none"]

\* type and data are the arguments of the invocation, result the
\* RealTimeTransaction it returned; failedAt is the step whose error reached
\* the catch.
IdleOp ==
    [pc |-> "idle", transactionId |-> 0, type |-> "none", data |-> NoData,
     result |-> NoData, failedAt |-> "none"]

MagicBlockInit ==
    /\ realTimeTransactions = <<>>
    /\ realTimeOps = [o \in Ops |-> IdleOp]

\* the arguments of processRealTimeLoanApproval
ApprovalRequests ==
    {[loanApplicationId |-> 1, borrowerId |-> p.borrowerId, amount |-> p.amount,
      interestRate |-> p.interestRate, duration |-> p.duration,
      collateralRatio |-> p.collateralRatio] :
        p \in {GoodParams,
               [GoodParams EXCEPT !.interestRate = 2000, !.collateralRatio = 100]}}

\* the arguments of processRealTimePayment
PaymentRequests ==
    [loanId : 1..MaxLoans, paymentAmount : {200000}]

\* the arguments of createRealTimeLoanOffer
OfferRequests ==
    [lenderId : Lenders, loanApplicationId : 1..MaxApps,
     offeredAmount : {100000}, offeredInterestRate : {1200}]

\* The operation up to its first await: the transaction is recorded as
\* 'processing' (lines 182-200, 301-315, 406-423).
BeginRealTime(o, type, data) ==
    /\ realTimeOps[o].pc \in {"idle", "returned", "threw"}
    /\ Len(realTimeTransactions) < MaxTransactions
    /\ realTimeTransactions' = Append(realTimeTransactions,
          [type |-> type, data |-> data, status |-> "processing",
           transactionHash |-> "none"])
    /\ realTimeOps' = [realTimeOps EXCEPT ![o] =
          [IdleOp EXCEPT !.pc = "delegate",
                         !.transactionId = Len(realTimeTransactions) + 1,
                         !.type = type, !.data = data]]

ProcessRealTimeLoanApproval(o) ==
    \E data \in ApprovalRequests : BeginRealTime(o, "loan_approval", data)

ProcessRealTimePayment(o) ==
    \E data \in PaymentRequests : BeginRealTime(o, "payment", data)

CreateRealTimeLoanOffer(o) ==
    \E data \in OfferRequests : BeginRealTime(o, "offer_creation", data)

\* the catch of the operation (lines 280-290, 383-393, 503-513)
CatchFailure_noUpdate(transactions, transactionId) == transactions

CatchFailure(transactions, transactionId) ==
    IF transactionId \in DOMAIN transactions
    THEN [transactions EXCEPT ![transactionId].status = "failed"]
    ELSE transactions

\* An awaited step rejected: the catch runs and the operation throws.
Throws(o, step) ==
    /\ realTimeTransactions' =
          CatchFailure(realTimeTransactions, realTimeOps[o].transactionId)
    /\ realTimeOps' = [realTimeOps EXCEPT ![o].pc = "threw", ![o].failedAt = step]

\* await this.delegateAccountToEphemeralRollup(...) (lines 205-208)
DelegateAccountToEphemeralRollup(o) ==
    \E ok \in BOOLEAN :
        /\ realTimeOps[o].pc = "delegate"
        /\ IF ok
           THEN /\ realTimeOps' = [realTimeOps EXCEPT ![o].pc = "send"]
                /\ UNCHANGED realTimeTransactions
           ELSE Throws(o, "delegate")

\* prepareMagicTransaction, getWritableAccounts, sendMagicTransaction
\* (lines 242-255)
SendMagicTransaction(o) ==
    \E ok \in BOOLEAN :
        /\ realTimeOps[o].pc = "send"
        /\ IF ok
           THEN /\ realTimeOps' = [realTimeOps EXCEPT ![o].pc = "confirm"]
                /\ UNCHANGED realTimeTransactions
           ELSE Throws(o, "send")

\* confirmMagicTransaction and the status update that follows it
\* (lines 258-265)
ConfirmMagicTransaction(o) ==
    \E ok \in BOOLEAN :
        /\ realTimeOps[o].pc = "confirm"
        /\ IF ok
           THEN /\ realTimeTransactions' =
                      [realTimeTransactions EXCEPT
                          ![realTimeOps[o].transactionId].status = "completed",
                          ![realTimeOps[o].transactionId].transactionHash = "signature"]
                /\ realTimeOps' = [realTimeOps EXCEPT ![o].pc = "lending"]
           ELSE Throws(o, "confirm")

\* The LendingService call has returned (ok) or thrown: the operation returns
\* the transaction, or its catch runs.
AfterLendingCall(o, ok) ==
    IF ok
    THEN /\ realTimeOps' = [realTimeOps EXCEPT
               ![o].pc = "returned",
               ![o].result = realTimeTransactions[realTimeOps[o].transactionId]]
         /\ UNCHANGED realTimeTransactions
    ELSE Throws(o, "lending")

\* await this.lendingService.submitLoanApplication(...) and the return
\* (lines 268-279)
ApprovalLendingCall(o) ==
    \E cryptoOk \in BOOLEAN :
        /\ realTimeOps[o].pc = "lending"
        /\ realTimeOps[o].type = "loan_approval"
        /\ LET data == realTimeOps[o].data
           IN  submitLoanApplication(
                  [amount |-> data.amount, interestRate |-> data.interestRate,
                   duration |-> data.duration,
                   collateralRatio |-> data.collateralRatio,
                   borrowerId |-> data.borrowerId],
                  cryptoOk)
        /\ AfterLendingCall(o, lendingCall'.ok)

\* createKeypairFromSecret, await this.lendingService.processLoanPayment(...)
\* and the return (lines 371-382)
PaymentLendingCall(o) ==
    \E keyOk \in BOOLEAN :
        /\ realTimeOps[o].pc = "lending"
        /\ realTimeOps[o].type = "payment"
        /\ IF keyOk
           THEN /\ processLoanPayment(realTimeOps[o].data.loanId,
                                      realTimeOps[o].data.paymentAmount)
                /\ AfterLendingCall(o, lendingCall'.ok)
           ELSE /\ UNCHANGED lendingVars
                /\ AfterLendingCall(o, FALSE)

\* await this.lendingService.createLoanOffer(...) with the default
\* expiresInHours, and the return (lines 491-502)
OfferLendingCall(o) ==
    /\ realTimeOps[o].pc = "lending"
    /\ realTimeOps[o].type = "offer_creation"
    /\ LET data == realTimeOps[o].data
       IN  createLoanOffer(data.lenderId, data.loanApplicationId,
                           data.offeredAmount, data.offeredInterestRate, 24)
    /\ AfterLendingCall(o, lendingCall'.ok)

(***************************************************************************)
(* LiquidationService                                                      *)
(* The repository holds the ActiveLoan rows; a task is one invocation of   *)
(* performLiquidationChecks (the cron cycle), getLiquidationStatus or      *)
(* triggerLiquidation, suspended at one of its awaits.  Nothing keeps two  *)
(* invocations from running at once.                                       *)
(***************************************************************************)

NumLoans == 2

NumTasks == 2

MaxRuns == 2

LoanIds == 1..NumLoans

Tasks == 1..NumTasks

\* 1.2, in hundredths
LIQUIDATION_THRESHOLD == 120

\* 0.05, in hundredths
LIQUIDATION_PENALTY == 5

PriceStep == 120

MaxPriceSteps == 12

\* The loan of the liquidation scenario, in cents: debt 1000, collateral 900.
ScenarioRow ==
    [status |-> "active", remainingAmount |-> 100000, collateralValue |-> 90000,
     principalAmount |-> 100000]

\* A loan whose collateral is worth more than its debt, in cents.
CoveredRow ==
    [status |-> "active", remainingAmount |-> 50000, collateralValue |-> 90000,
     principalAmount |-> 100000]

PriceGrid == {k * PriceStep : k \in 0..MaxPriceSteps} \cup {ScenarioRow.collateralValue}

\* The rows the repository may hold when the service starts: a loan near the
\* threshold, a loan far below it, a defaulted loan, and two loans without debt
\* (with and without collateral).
NearRow ==
    [status |-> "active", remainingAmount |-> 900, collateralValue |-> 1020,
     principalAmount |-> 900]

DeepRow ==
    [status |-> "active", remainingAmount |-> 900, collateralValue |-> 480,
     principalAmount |-> 900]

DefaultedRow ==
    [status |-> "defaulted", remainingAmount |-> 900, collateralValue |-> 480,
     principalAmount |-> 900]

DebtFreeRow ==
    [status |-> "active", remainingAmount |-> 0, collateralValue |-> 0,
     principalAmount |-> 300]

EmptyRow ==
    [status |-> "active", remainingAmount |-> 0, collateralValue |-> 0,
     principalAmount |-> 0]

RepoRows(l) ==
    IF l % 2 = 1 THEN {NearRow, DeepRow, DefaultedRow}
    ELSE {NearRow, DebtFreeRow, EmptyRow}

\* getCurrentCollateralValue: baseValue * (1 + randomFactor) with randomFactor
\* in [-0.1, 0.1), sampled on the price grid.
getCurrentCollateralValue(loan) ==
    LET baseValue == IF loan.collateralValue # 0 THEN loan.collateralValue
                     ELSE loan.principalAmount * 2
    IN  IF baseValue = 0 THEN {0}
        ELSE {v \in PriceGrid : 10 * v >= 9 * baseValue /\ 10 * v < 11 * baseValue}

\* a / b as JavaScript computes it: a quotient, or Infinity, -Infinity, NaN
Quotient(a, b) ==
    IF b # 0 THEN [kind |-> "number", num |-> a, den |-> b]
    ELSE IF a > 0 THEN [kind |-> "Infinity"]
    ELSE IF a < 0 THEN [kind |-> "-Infinity"]
    ELSE [kind |-> "NaN"]

\* q < hundredths / 100
QuotientLess_orEqual(q, hundredths) ==
    CASE q.kind = "number" ->
            IF q.den > 0 THEN 100 * q.num <= hundredths * q.den
                         ELSE 100 * q.num >= hundredths * q.den
      [] q.kind = "-Infinity" -> TRUE
      [] OTHER -> FALSE

QuotientLess(q, hundredths) ==
    CASE q.kind = "number" ->
            IF q.den > 0 THEN 100 * q.num < hundredths * q.den
                         ELSE 100 * q.num > hundredths * q.den
      [] q.kind = "-Infinity" -> TRUE
      [] OTHER -> FALSE

NoCheck == [kind |-> "null"]

\* the LiquidationCheck of checkLoanForLiquidation (lines 75-91) and the
\* unclamped amount it hands to liquidateLoan (line 104)
LiquidationCheck(loan, collateralValue) ==
    LET debtAmount == loan.remainingAmount
        currentRatio == Quotient(collateralValue, debtAmount)
        requiredRatio == LIQUIDATION_THRESHOLD
        needsLiquidation == QuotientLess(currentRatio, requiredRatio)
        liquidationAmount == IF needsLiquidation
                             THEN debtAmount - (collateralValue * 100) \div requiredRatio
                             ELSE 0
    IN  [kind |-> "check",
         loanId |-> loan.id,
         currentCollateralRatio |-> currentRatio,
         requiredCollateralRatio |-> requiredRatio,
         needsLiquidation |-> needsLiquidation,
         liquidationAmount |-> Max2(0, liquidationAmount),
         collateralValue |-> collateralValue,
         debtAmount |-> debtAmount,
         rawAmount |-> liquidationAmount]

\* activeLoanRepository.find({ where: { status: ACTIVE } }): copies of the rows
RECURSIVE FindFrom(_, _, _)
FindFrom(rows, i, anyStatus) ==
    IF i > NumLoans THEN <<>>
    ELSE (IF anyStatus \/ rows[i].status = "active"
          THEN <<[id |-> i,
                  status |-> rows[i].status,
                  remainingAmount |-> rows[i].remainingAmount,
                  collateralValue |-> rows[i].collateralValue,
                  principalAmount |-> rows[i].principalAmount]>>
          ELSE <<>>) \o FindFrom(rows, i + 1, anyStatus)

FindActive_anyStatus(rows) == FindFrom(rows, 1, TRUE)

FindActive(rows) == FindFrom(rows, 1, FALSE)

NoLiquidationResult == [kind |-> "none"]

Kinds == {"cycle", "status", "trigger", "direct"}

\* check is the last LiquidationCheck the invocation computed, result the
\* LiquidationResult its last step received from liquidateLoan; pre is the
\* loan's row when liquidateLoan was called; flagged and liquidated are the
\* loans found to need liquidation and those liquidateLoan returned for;
\* unchecked is the number of listed loans the invocation ended without checking;
\* inForce is the governance liquidationThreshold when the invocation started
\* (kept for the properties: the service never reads it).
IdleTask ==
    [kind |-> "none", pc |-> "idle", loans |-> <<>>, idx |-> 0,
     check |-> NoCheck, origin |-> "none", amount |-> 0, seized |-> 0,
     path |-> "none", pre |-> NoCheck, flagged |-> {}, liquidated |-> {},
     result |-> NoLiquidationResult, outcome |-> "none", unchecked |-> 0,
     inForce |-> 0]

LiquidationInit ==
    /\ repo \in [LoanIds -> UNION {RepoRows(l) : l \in LoanIds}]
    /\ \A l \in LoanIds : repo[l] \in RepoRows(l)
    /\ tasks = [t \in Tasks |-> IdleTask]
    /\ runs = 0
    /\ transfers = [l \in LoanIds |-> [k \in Kinds |-> 0]]

\* The invocation ends: by a return ("returned"), by an error thrown to its
\* caller ("threw"), or, for the cycle, in its own catch ("aborted").
Ended(task, outcome) ==
    [task EXCEPT !.pc = "done", !.outcome = outcome,
                 !.unchecked = Len(task.loans) - task.idx,
                 !.loans = <<>>, !.idx = 0, !.origin = "none", !.amount = 0,
                 !.seized = 0, !.path = "none", !.pre = NoCheck]

\* checkLoanForLiquidation has returned chk (a check, or null) to its caller.
AfterCheck(task, chk) ==
    IF task.kind = "trigger"
    THEN IF chk = NoCheck \/ ~chk.needsLiquidation
         THEN Ended(task, "threw")
         ELSE [task EXCEPT !.pc = "seize", !.origin = "trigger",
                           !.amount = chk.liquidationAmount,
                           !.seized = 0, !.path = "none", !.pre = NoCheck]
    ELSE IF task.idx < Len(task.loans)
         THEN [task EXCEPT !.pc = "check", !.idx = @ + 1,
                           !.origin = "none", !.amount = 0, !.seized = 0,
                           !.path = "none", !.pre = NoCheck]
         ELSE Ended(task, "returned")

\* An error reaches the catch of checkLoanForLiquidation (lines 108-112);
\* h is the number of recordError calls that reject from here on.
CheckThrows(task, h) ==
    IF h = 0 THEN AfterCheck(task, NoCheck)
    ELSE IF task.kind = "cycle" THEN Ended(task, "aborted")
    ELSE Ended(task, "threw")

\* liquidateLoan has returned the LiquidationResult res to its caller.
AfterLiquidate(task, res) ==
    IF task.origin \in {"trigger", "direct"}
    THEN Ended([task EXCEPT !.result = res], "returned")
    ELSE AfterCheck([task EXCEPT !.liquidated = @ \cup {task.loans[task.idx].id},
                                 !.result = res],
                    task.check)

\* the LiquidationResult of the catch of liquidateLoan (lines 180-186)
FailureResult(task) ==
    [kind |-> "result",
     loanId |-> task.loans[task.idx].id,
     success |-> FALSE,
     liquidatedAmount |-> 0,
     remainingDebt |-> task.loans[task.idx].remainingAmount]

\* An error reaches the catch of liquidateLoan (lines 176-187).
LiquidateThrows(task, h) ==
    IF h = 0 THEN AfterLiquidate(task, FailureResult(task))
    ELSE IF task.origin \in {"trigger", "direct"} THEN Ended(task, "threw")
    ELSE CheckThrows(task, h - 1)

MaxHandlers == 2

\* What the collaborators do during one step: every call returns ("none"), or
\* the call named by `at` rejects and the next h calls of recordError reject too.
Faults(calls) ==
    {[at |-> "none", h |-> 0]} \cup [at : calls, h : 0..MaxHandlers]

\* performLiquidationChecks up to its first check (lines 48-57)
performLiquidationChecks(t) ==
    \E findOk \in BOOLEAN :
        /\ tasks[t].pc \in {"idle", "done"}
        /\ LET activeLoans_ == FindActive(repo)
               started == [IdleTask EXCEPT !.kind = "cycle",
                                            !.inForce = getCurrentParameters.liquidationThreshold]
           IN  tasks' = [tasks EXCEPT ![t] =
                   IF ~findOk THEN Ended(started, "aborted")
                   ELSE IF activeLoans_ = <<>> THEN Ended(started, "returned")
                   ELSE [started EXCEPT !.pc = "check", !.loans = activeLoans_,
                                        !.idx = 1]]
        /\ UNCHANGED <<repo, transfers>>

\* one of the MaxRuns invocations the bounded specifications start
PerformLiquidationChecks(t) ==
    /\ runs < MaxRuns
    /\ runs' = runs + 1
    /\ performLiquidationChecks(t)

\* getLiquidationStatus up to its first check (lines 252-261)
GetLiquidationStatus(t) ==
    \E findOk \in BOOLEAN :
        /\ tasks[t].pc \in {"idle", "done"}
        /\ runs < MaxRuns
        /\ runs' = runs + 1
        /\ LET activeLoans_ == FindActive(repo)
               started == [IdleTask EXCEPT !.kind = "status",
                                            !.inForce = getCurrentParameters.liquidationThreshold]
           IN  tasks' = [tasks EXCEPT ![t] =
                   IF ~findOk THEN Ended(started, "threw")
                   ELSE IF activeLoans_ = <<>> THEN Ended(started, "returned")
                   ELSE [started EXCEPT !.pc = "check", !.loans = activeLoans_,
                                        !.idx = 1]]
        /\ UNCHANGED <<repo, transfers>>

\* triggerLiquidation up to its check (lines 286-294)
TriggerLiquidation(t) ==
    \E loanId \in LoanIds, findOk \in BOOLEAN :
        /\ tasks[t].pc \in {"idle", "done"}
        /\ runs < MaxRuns
        /\ runs' = runs + 1
        /\ LET found == SelectSeq(FindActive(repo), LAMBDA l : l.id = loanId)
               started == [IdleTask EXCEPT !.kind = "trigger",
                                            !.inForce = getCurrentParameters.liquidationThreshold]
           IN  tasks' = [tasks EXCEPT ![t] =
                   IF ~findOk \/ found = <<>> THEN Ended(started, "threw")
                   ELSE [started EXCEPT !.pc = "check", !.loans = found, !.idx = 1]]
        /\ UNCHANGED <<repo, transfers>>

\* The amounts a caller of liquidateLoan asks for, in cents: the scenario's
\* 166.67, and the whole debt.
LiquidationAmounts == {16667, 100000}

\* liquidateLoan called with a loan read from the repository (lines 117-119)
LiquidateLoan(t) ==
    \E loanId \in LoanIds, liquidationAmount \in LiquidationAmounts :
        /\ tasks[t].pc \in {"idle", "done"}
        /\ runs < MaxRuns
        /\ runs' = runs + 1
        /\ LET loan == FindActive_anyStatus(repo)[loanId]
           IN  tasks' = [tasks EXCEPT ![t] =
                   [IdleTask EXCEPT !.kind = "direct", !.pc = "seize",
                                    !.loans = <<loan>>, !.idx = 1,
                                    !.origin = "direct",
                                    !.amount = liquidationAmount,
                                    !.inForce = getCurrentParameters.liquidationThreshold]]
        /\ UNCHANGED <<repo, transfers>>

\* checkLoanForLiquidation up to the call of liquidateLoan (lines 72-104)
CheckLoanForLiquidation(t) ==
    \E fault \in Faults({"update", "track"}) :
        /\ tasks[t].pc = "check"
        /\ LET task == tasks[t]
               loan == task.loans[task.idx]
           IN  \E collateralValue \in getCurrentCollateralValue(loan) :
                 LET check == LiquidationCheck(loan, collateralValue)
                     seen == [task EXCEPT !.check = check,
                                          !.result = NoLiquidationResult]
                 IN  /\ IF fault.at = "update"
                        THEN /\ repo' = repo
                             /\ tasks' = [tasks EXCEPT ![t] = CheckThrows(seen, fault.h)]
                        ELSE /\ repo' = [repo EXCEPT
                                   ![loan.id].collateralValue = collateralValue]
                             /\ tasks' = [tasks EXCEPT ![t] =
                                   IF ~check.needsLiquidation THEN AfterCheck(seen, check)
                                   ELSE IF fault.at = "track"
                                   THEN CheckThrows(
                                          [seen EXCEPT !.flagged = @ \cup {loan.id}],
                                          fault.h)
                                   ELSE [seen EXCEPT
                                          !.flagged = @ \cup {loan.id},
                                          !.pc = "seize", !.origin = "check",
                                          !.amount = check.rawAmount]]
        /\ UNCHANGED <<runs, transfers>>

\* The transfers of a loan and kind are counted up to TransferCap, which the
\* invocations of a bounded specification cannot exceed.
TransferCap == 2 * MaxRuns

\* The repository after executeLiquidation threw: the catch of liquidateLoan
\* (lines 176-187) writes nothing.
AfterFailedTransfer(rows, loanId) == rows

\* liquidateLoan up to the transfer of executeLiquidation (lines 119-133 / 155,
\* and 193-217)
SeizeCollateral(t) ==
    \E fault \in Faults({"findOne"}) :
        /\ tasks[t].pc = "seize"
        /\ LET loan == tasks[t].loans[tasks[t].idx]
               task == [tasks[t] EXCEPT
                          !.result = NoLiquidationResult,
                          !.pre = [status |-> repo[loan.id].status,
                                   remainingAmount |-> repo[loan.id].remainingAmount]]
               liquidationAmount == task.amount
               penaltyAmount == (liquidationAmount * LIQUIDATION_PENALTY) \div 100
               totalLiquidationAmount == liquidationAmount + penaltyAmount
           IN  \E collateralValue \in getCurrentCollateralValue(loan) :
                 LET partial == collateralValue < totalLiquidationAmount
                     actual == IF partial THEN (collateralValue * 95) \div 100
                               ELSE totalLiquidationAmount
                 IN  IF fault.at = "none"
                     THEN /\ transfers' = [transfers EXCEPT ![loan.id][task.kind] =
                                              Min2(@ + 1, TransferCap)]
                          /\ tasks' = [tasks EXCEPT ![t] =
                                [task EXCEPT !.pc = "commit", !.seized = actual,
                                             !.path = IF partial THEN "partial"
                                                      ELSE "full"]]
                          /\ repo' = repo
                     ELSE /\ transfers' = transfers
                          /\ tasks' = [tasks EXCEPT ![t] =
                                          LiquidateThrows(task, fault.h)]
                          /\ repo' = AfterFailedTransfer(repo, loan.id)
        /\ UNCHANGED runs

\* liquidateLoan from the repository update to its return (lines 136-152 /
\* 158-174, and the catch)
CommitLiquidation(t) ==
    \E fault \in Faults({"update", "track"}) :
        /\ tasks[t].pc = "commit"
        /\ LET task == tasks[t]
               loan == task.loans[task.idx]
               remainingDebt == IF task.path = "partial"
                                THEN loan.remainingAmount - task.seized
                                ELSE 0
           IN  /\ repo' = IF fault.at # "update"
                          THEN [repo EXCEPT ![loan.id].status = "liquidated",
                                            ![loan.id].remainingAmount = remainingDebt]
                          ELSE repo
               /\ tasks' = [tasks EXCEPT ![t] =
                     IF fault.at = "none"
                     THEN AfterLiquidate(task,
                            [kind |-> "result", loanId |-> loan.id, success |-> TRUE,
                             liquidatedAmount |-> task.seized,
                             remainingDebt |-> remainingDebt])
                     ELSE LiquidateThrows(task, fault.h)]
        /\ UNCHANGED <<runs, transfers>>

NoFactors == [kind |-> "none"]

\* The repository and the tasks when the liquidation service is left out.
LiquidationOff ==
    /\ repo = [l \in {} |-> 0]
    /\ tasks = [t \in {} |-> 0]
    /\ runs = 0
    /\ transfers = [l \in {} |-> 0]

LendingNext ==
    \/ SubmitLoanApplication /\ UNCHANGED <<magicVars, governanceVars, riskVars, liquidationVars>>
    \/ CreateLoanOffer /\ UNCHANGED <<magicVars, governanceVars, riskVars, liquidationVars>>
    \/ AcceptLoanOffer /\ UNCHANGED <<magicVars, governanceVars, riskVars, liquidationVars>>
    \/ ProcessLoanPayment /\ UNCHANGED <<magicVars, governanceVars, riskVars, liquidationVars>>
    \/ Tick /\ UNCHANGED <<magicVars, governanceVars, riskVars, liquidationVars>>

LiquidationNext ==
    \E t \in Tasks :
        \/ PerformLiquidationChecks(t) /\ UNCHANGED <<magicVars, governanceVars, riskVars, lendingVars>>
        \/ GetLiquidationStatus(t) /\ UNCHANGED <<magicVars, governanceVars, riskVars, lendingVars>>
        \/ TriggerLiquidation(t) /\ UNCHANGED <<magicVars, governanceVars, riskVars, lendingVars>>
        \/ CheckLoanForLiquidation(t) /\ UNCHANGED <<magicVars, governanceVars, riskVars, lendingVars>>
        \/ SeizeCollateral(t) /\ UNCHANGED <<magicVars, governanceVars, riskVars, lendingVars>>
        \/ CommitLiquidation(t) /\ UNCHANGED <<magicVars, governanceVars, riskVars, lendingVars>>

RiskInit ==
    /\ factors \in RiskFactorsSet
    /\ assessment = NoResult
    /\ LendingInit
    /\ LiquidationOff
    /\ GovernanceInit
    /\ MagicBlockInit

RiskNext == AssessRisk

RiskSpec == RiskInit /\ [][RiskNext]_vars

LendingSpecInit ==
    /\ factors = NoFactors
    /\ assessment = NoResult
    /\ LendingInit
    /\ LiquidationOff
    /\ GovernanceInit
    /\ MagicBlockInit

LendingSpec == LendingSpecInit /\ [][LendingNext]_vars

LiquidationSpecInit ==
    /\ factors = NoFactors
    /\ assessment = NoResult
    /\ LendingInit
    /\ LiquidationInit
    /\ GovernanceInit
    /\ MagicBlockInit

LiquidationSpec == LiquidationSpecInit /\ [][LiquidationNext]_vars

\* The two services share no state: LendingService keeps its own maps and
\* LiquidationService works on the repository, so every step of one commutes
\* with every step of the other.  Spec runs the lending service on an empty
\* repository and the liquidation service on a populated one.
Init == LendingSpecInit \/ LiquidationSpecInit

Next ==
    \/ LiquidationOff /\ LendingNext
    \/ ~LiquidationOff /\ LiquidationNext

Spec == Init /\ [][Next]_vars

(***************************************************************************)
(* Properties                                                              *)
(***************************************************************************)

TerminalStatuses == {"repaid", "defaulted", "liquidated"}

\* the loan an invocation is working on
CurrentLoan(t) == tasks[t].loans[tasks[t].idx]

\* C1: liquidateLoan called for a loan whose stored status is already
\* LIQUIDATED executes no transfer and leaves the loan's status and
\* remainingAmount as they are.
C1_LiquidatedLoanNotSeizedAgain ==
    [][\A t \in DOMAIN tasks :
         (/\ tasks[t].pc = "seize"
          /\ tasks'[t] # tasks[t]
          /\ repo[CurrentLoan(t).id].status = "liquidated")
         => LET l == CurrentLoan(t).id
            IN  /\ transfers'[l] = transfers[l]
                /\ repo'[l].status = repo[l].status
                /\ repo'[l].remainingAmount = repo[l].remainingAmount]_vars

\* C2: when liquidateLoan returns success = false the loan is still ACTIVE with
\* the remainingAmount it had when liquidateLoan was called, and status and
\* remainingAmount are written only by a call whose transfer has been executed.
C2_FailedLiquidationLeavesLoanActive ==
    [][/\ \A t \in DOMAIN tasks :
            (/\ tasks[t].pc \in {"seize", "commit"}
             /\ tasks'[t] # tasks[t]
             /\ tasks'[t].result # NoLiquidationResult
             /\ ~tasks'[t].result.success)
            => LET l == CurrentLoan(t).id
                   before == IF tasks[t].pc = "commit"
                             THEN tasks[t].pre.remainingAmount
                             ELSE repo[l].remainingAmount
               IN  /\ repo'[l].status = "active"
                   /\ repo'[l].remainingAmount = before
       /\ \A l \in DOMAIN repo :
            (repo'[l].status # repo[l].status
               \/ repo'[l].remainingAmount # repo[l].remainingAmount)
            => \E t \in DOMAIN tasks :
                 /\ tasks[t].pc = "commit"
                 /\ CurrentLoan(t).id = l
                 /\ tasks'[t] # tasks[t]]_vars

\* C3: liquidation cycles are serialized, so that whatever cycles, status
\* queries and manual triggers run, no loan is seized by two different kinds
\* of invocation, nor twice by scheduled cycles, nor twice by status queries.
C3_AtMostOneSeizurePerLoan ==
    \A l \in DOMAIN transfers :
        /\ transfers[l]["cycle"] <= 1
        /\ transfers[l]["status"] <= 1
        /\ Cardinality({k \in Kinds : transfers[l][k] > 0}) <= 1

\* C4: no step ever increases a loan's remainingAmount, neither a payment
\* (accepted or rejected, larger or smaller than the interest due) nor a
\* liquidation.
C4_RemainingAmountNeverIncreases ==
    [][/\ \A i \in DOMAIN activeLoans :
            activeLoans'[i].remainingAmount <= activeLoans[i].remainingAmount
       /\ \A l \in DOMAIN repo :
            repo'[l].remainingAmount <= repo[l].remainingAmount]_vars

C6_CycleChecksAndLiquidatesInOrder ==
    \A t \in DOMAIN tasks :
        tasks[t].kind = "cycle"
        => /\ tasks[t].pc = "done" => tasks[t].unchecked = 0
           /\ tasks[t].pc \in {"check", "done"}
                => tasks[t].flagged \subseteq tasks[t].liquidated

\* C7: an assessment is approved exactly when riskScore <= 70, creditScore >=
\* 300, defaultCount <= 2 and collateralRatio >= 1.1 all hold.
C7_ApprovalRule ==
    assessment # NoResult
    => (assessment.approved
          <=> /\ assessment.riskScore <= 7000
              /\ factors.creditScore >= 300
              /\ factors.defaultCount <= 2
              /\ factors.collateralRatio >= 110)

\* C7 witness: an assessment rejected for its collateral ratio alone.
C7_Witness ==
    /\ assessment # NoResult
    /\ ~assessment.approved
    /\ assessment.riskScore <= 7000
    /\ factors.creditScore >= 300
    /\ factors.defaultCount <= 2
    /\ factors.collateralRatio < 110

\* C8: the four sub-scores and the riskScore of an assessment lie in [0, 100],
\* and riskLevel is LOW below 25, MEDIUM from 25 below 50, HIGH from 50 below
\* 75 and CRITICAL from 75, of the returned riskScore.
C8_ScoreRangesAndLevel ==
    assessment # NoResult
    => /\ \A k \in DOMAIN assessment.factors : assessment.factors[k] \in 0..100
       /\ assessment.riskScore \in 0..10000
       /\ assessment.riskLevel =
            (CASE assessment.riskScore < 2500 -> "LOW"
               [] assessment.riskScore >= 2500 /\ assessment.riskScore < 5000 -> "MEDIUM"
               [] assessment.riskScore >= 5000 /\ assessment.riskScore < 7500 -> "HIGH"
               [] OTHER -> "CRITICAL")

\* C8 witness: an assessment whose riskScore is exactly 50.
C8_Witness ==
    /\ assessment # NoResult
    /\ assessment.riskScore = 5000
    /\ assessment.riskLevel = "HIGH"

\* C9: a LiquidationCheck has needsLiquidation exactly when collateralValue /
\* debtAmount < requiredCollateralRatio; its liquidationAmount is 0 when no
\* liquidation is needed and max(0, debtAmount - collateralValue /
\* requiredCollateralRatio) otherwise; a loan without debt is healthy.
C9_LiquidationCheck ==
    \A t \in DOMAIN tasks :
        LET c == tasks[t].check
        IN  c # NoCheck
            => /\ c.requiredCollateralRatio = 120
               /\ c.needsLiquidation
                    <=> (c.debtAmount > 0 /\ 5 * c.collateralValue < 6 * c.debtAmount)
               /\ ~c.needsLiquidation => c.liquidationAmount = 0
               /\ c.needsLiquidation
                    => 6 * c.liquidationAmount
                         = Max2(0, 6 * c.debtAmount - 5 * c.collateralValue)
               /\ c.debtAmount = 0 => ~c.needsLiquidation

\* C9 witness: one check of a loan exactly at the threshold and one of a loan
\* without debt have been computed.
C9_Witness ==
    \E t, u \in DOMAIN tasks :
        /\ tasks[t].check # NoCheck
        /\ tasks[t].check.debtAmount > 0
        /\ 5 * tasks[t].check.collateralValue = 6 * tasks[t].check.debtAmount
        /\ ~tasks[t].check.needsLiquidation
        /\ tasks[u].check # NoCheck
        /\ tasks[u].check.debtAmount = 0
        /\ tasks[u].check.collateralValue > 0

\* C10: no stored application has a non-positive amount, duration or
\* collateralRatio: submitLoanApplication fails for such parameters and
\* stores nothing.
C10_NonPositiveParamsNotStored ==
    \A i \in DOMAIN loanApplications :
        /\ loanApplications[i].amount > 0
        /\ loanApplications[i].duration > 0
        /\ loanApplications[i].collateralRatio > 0

\* C11: createLoanOffer returns exactly when the application it names exists
\* and is approved at the call, and then appends one offer with status
\* pending for that application; otherwise it throws and stores no offer.
C11_CreateOfferRule ==
    [][(lendingCall'.op = "offer" /\ now' = now)
       => LET id == lendingCall'.id
              approved == /\ id \in DOMAIN loanApplications
                          /\ loanApplications[id].status = "approved"
          IN  /\ lendingCall'.ok <=> approved
              /\ lendingCall'.ok
                   => /\ Len(loanOffers') = Len(loanOffers) + 1
                      /\ SubSeq(loanOffers', 1, Len(loanOffers)) = loanOffers
                      /\ loanOffers'[Len(loanOffers')].status = "pending"
                      /\ loanOffers'[Len(loanOffers')].loanApplicationId = id
              /\ ~lendingCall'.ok => loanOffers' = loanOffers]_vars

\* C11 witness: createLoanOffer has thrown for an application that exists but
\* is already active, and stored nothing beside the offer accepted earlier.
C11_Witness ==
    /\ lendingCall.op = "offer"
    /\ ~lendingCall.ok
    /\ lendingCall.id \in DOMAIN loanApplications
    /\ loanApplications[lendingCall.id].status = "active"
    /\ Len(loanOffers) = 1

\* C12: acceptLoanOffer throws, creates no loan and leaves the applications as
\* they are when the offer is unknown, not pending or expired (an expired
\* pending offer is marked expired); it returns only for a pending, unexpired
\* offer accepted by the application's borrower, and then appends exactly one
\* loan with remainingAmount = offeredAmount, marks the offer accepted and
\* the application active.
C12_AcceptOfferRule ==
    [][(lendingCall'.op = "accept" /\ now' = now)
       => LET id == lendingCall'.id
              known == id \in DOMAIN loanOffers
          IN  /\ ~lendingCall'.ok
                   => /\ activeLoans' = activeLoans
                      /\ loanApplications' = loanApplications
              /\ ~known => ~lendingCall'.ok /\ loanOffers' = loanOffers
              /\ (known /\ loanOffers[id].status # "pending")
                   => ~lendingCall'.ok /\ loanOffers' = loanOffers
              /\ (known /\ loanOffers[id].status = "pending"
                        /\ now > loanOffers[id].expiresAt)
                   => /\ ~lendingCall'.ok
                      /\ loanOffers' = [loanOffers EXCEPT ![id].status = "expired"]
              /\ lendingCall'.ok
                   => /\ known
                      /\ loanOffers[id].status = "pending"
                      /\ now <= loanOffers[id].expiresAt
                      /\ Len(activeLoans') = Len(activeLoans) + 1
                      /\ SubSeq(activeLoans', 1, Len(activeLoans)) = activeLoans
                      /\ LET loan == activeLoans'[Len(activeLoans')]
                             appId == loanOffers[id].loanApplicationId
                         IN  /\ loan.borrowerId = loanApplications[appId].borrowerId
                             /\ loan.loanApplicationId = appId
                             /\ loan.remainingAmount = loanOffers[id].offeredAmount
                             /\ loan.status = "active"
                             /\ loanOffers' = [loanOffers EXCEPT ![id].status = "accepted"]
                             /\ loanApplications' =
                                  [loanApplications EXCEPT ![appId].status = "active"]]_vars

\* C12 witness: one offer has been accepted into a loan and acceptLoanOffer has
\* then thrown for an expired offer, which is marked expired.
C12_Witness ==
    /\ lendingCall.op = "accept"
    /\ ~lendingCall.ok
    /\ lendingCall.id \in DOMAIN loanOffers
    /\ loanOffers[lendingCall.id].status = "expired"
    /\ Len(activeLoans) = 1
    /\ \E o \in DOMAIN loanOffers : loanOffers[o].status = "accepted"

\* C13: processLoanPayment throws for a loan id it does not know and for a
\* loan that is not active, and leaves every loan (remainingAmount,
\* completedPayments, nextPaymentDate, status) as it was; it returns only for
\* an active loan.
C13_PaymentRejectedUnlessActive ==
    [][(lendingCall'.op = "payment" /\ now' = now)
       => LET id == lendingCall'.id
              active == /\ id \in DOMAIN activeLoans
                        /\ activeLoans[id].status = "active"
          IN  /\ lendingCall'.ok <=> active
              /\ ~active => activeLoans' = activeLoans]_vars

\* C13 witness: processLoanPayment has thrown for a loan that is repaid.
C13_Witness ==
    /\ lendingCall.op = "payment"
    /\ ~lendingCall.ok
    /\ lendingCall.id \in DOMAIN activeLoans
    /\ activeLoans[lendingCall.id].status = "repaid"
    /\ activeLoans[lendingCall.id].completedPayments = 1

(***************************************************************************)
(* Repayment by equal principal installments                               *)
(* One approved application with one pending offer; the borrower accepts   *)
(* and then pays, each month, that month's interest plus                   *)
(* principalAmount / totalPayments.                                        *)
(***************************************************************************)

\* a / b as a number of the model's unit, rounded to nearest as JavaScript
\* rounds a quotient to the nearest double
RoundDiv(a, b) == (2 * a + b) \div (2 * b)

\* the amount of the next installment of a loan: the month's interest
\* (remainingAmount * interestRate / 12) plus principalAmount / totalPayments
Installment(loan) ==
    MulDiv(loan.remainingAmount, loan.interestRate, 120000)
      + RoundDiv(loan.principalAmount * 30, loan.totalPayments)

RepayInit ==
    /\ factors = NoFactors
    /\ assessment = NoResult
    /\ \E duration \in {30, 60, 90, 120, 180}, interestRate \in {500, 1200, 2000},
          offeredAmount \in {100000, 100001, 200000, 250000} :
          /\ loanApplications =
               <<[borrowerId |-> "b1", amount |-> offeredAmount,
                  interestRate |-> interestRate, duration |-> duration,
                  collateralRatio |-> 250, status |-> "approved",
                  riskAssessment |-> performEncryptedRiskAssessment(
                      [GoodParams EXCEPT !.amount = offeredAmount,
                                         !.interestRate = interestRate,
                                         !.duration = duration])]>>
          /\ loanOffers =
               <<[lenderId |-> "l1", loanApplicationId |-> 1,
                  offeredAmount |-> offeredAmount,
                  offeredInterestRate |-> interestRate,
                  status |-> "pending", expiresAt |-> 12]>>
    /\ activeLoans = <<>>
    /\ now = 0
    /\ lendingCall = NoCall
    /\ LiquidationOff
    /\ GovernanceInit
    /\ MagicBlockInit

\* processLoanPayment(loanId, Installment(loan), key), for as long as fewer
\* than totalPayments payments have been made
PayInstallment ==
    \E loanId \in DOMAIN activeLoans :
        /\ activeLoans[loanId].completedPayments * 30 < activeLoans[loanId].totalPayments
        /\ IF PaymentAccepted(loanId)
           THEN /\ activeLoans' = [activeLoans EXCEPT
                      ![loanId] = ApplyPayment(@, Installment(activeLoans[loanId]))]
                /\ lendingCall' = [op |-> "payment", id |-> loanId, ok |-> TRUE]
           ELSE /\ activeLoans' = activeLoans
                /\ lendingCall' = [op |-> "payment", id |-> loanId, ok |-> FALSE]
        /\ UNCHANGED <<loanApplications, loanOffers, now>>

RepayNext ==
    \/ AcceptLoanOffer /\ UNCHANGED <<magicVars, governanceVars, riskVars, liquidationVars>>
    \/ PayInstallment /\ UNCHANGED <<magicVars, governanceVars, riskVars, liquidationVars>>

RepaySpec == RepayInit /\ [][RepayNext]_vars

\* C14: a loan repaid by totalPayments installments of interest plus
\* principalAmount / totalPayments is repaid, with remainingAmount 0, after
\* the last of them and not before.
C14_InstallmentsRepayLoan ==
    \A i \in DOMAIN activeLoans :
        LET loan == activeLoans[i]
        IN  /\ loan.completedPayments * 30 = loan.totalPayments
                 => loan.remainingAmount = 0 /\ loan.status = "repaid"
            /\ loan.completedPayments * 30 < loan.totalPayments
                 => loan.status # "repaid"

(***************************************************************************)
(* A payment racing with a liquidation cycle                               *)
(* The repository of src/ is written by LiquidationService alone; the      *)
(* payment below is the specification's processPayment applied to a        *)
(* repository row, and one invocation of the cycle runs beside it.         *)
(***************************************************************************)

PrincipalPayments == {450}

\* processPayment on a repository row: remainingAmount becomes
\* max(0, remainingAmount - principalPayment), and the loan is repaid at 0;
\* rejected for a loan that is not active
RepoPayment ==
    \E l \in DOMAIN repo, principalPayment \in PrincipalPayments :
        IF repo[l].status = "active"
        THEN LET newRemainingAmount == Max2(0, repo[l].remainingAmount - principalPayment)
             IN  /\ repo' = [repo EXCEPT
                       ![l].remainingAmount = newRemainingAmount,
                       ![l].status = IF newRemainingAmount <= 0 THEN "repaid" ELSE @]
                 /\ lendingCall' = [op |-> "payment", id |-> l, ok |-> TRUE]
                 /\ UNCHANGED <<magicVars, governanceVars, riskVars, loanApplications, loanOffers, activeLoans,
                                now, tasks, runs, transfers>>
        ELSE /\ lendingCall' = [op |-> "payment", id |-> l, ok |-> FALSE]
             /\ UNCHANGED <<magicVars, governanceVars, riskVars, loanApplications, loanOffers, activeLoans,
                            now, liquidationVars>>

RaceNext ==
    \/ RepoPayment
    \/ PerformLiquidationChecks(1) /\ UNCHANGED <<magicVars, governanceVars, riskVars, lendingVars>>
    \/ CheckLoanForLiquidation(1) /\ UNCHANGED <<magicVars, governanceVars, riskVars, lendingVars>>
    \/ SeizeCollateral(1) /\ UNCHANGED <<magicVars, governanceVars, riskVars, lendingVars>>
    \/ CommitLiquidation(1) /\ UNCHANGED <<magicVars, governanceVars, riskVars, lendingVars>>

RaceSpec == LiquidationSpecInit /\ [][RaceNext]_vars

C16_SinkFailureDoesNotAbort ==
    [][\A t \in DOMAIN tasks :
         /\ (tasks[t].pc = "check" /\ tasks'[t].flagged # tasks[t].flagged)
              => tasks'[t].pc = "seize"
         /\ (/\ tasks[t].pc = "commit"
             /\ tasks'[t] # tasks[t]
             /\ repo'[CurrentLoan(t).id] # repo[CurrentLoan(t).id])
              => /\ tasks'[t].result # NoLiquidationResult
                 /\ tasks'[t].result.success]_vars

(***************************************************************************)
(* Governance changing the liquidation threshold beside a scheduled cycle  *)
(***************************************************************************)

GovernanceNext ==
    \/ UpdateParameters
    \/ PerformLiquidationChecks(1) /\ UNCHANGED <<magicVars, governanceVars, riskVars, lendingVars>>
    \/ CheckLoanForLiquidation(1) /\ UNCHANGED <<magicVars, governanceVars, riskVars, lendingVars>>
    \/ SeizeCollateral(1) /\ UNCHANGED <<magicVars, governanceVars, riskVars, lendingVars>>
    \/ CommitLiquidation(1) /\ UNCHANGED <<magicVars, governanceVars, riskVars, lendingVars>>

GovernanceSpec == LiquidationSpecInit /\ [][GovernanceNext]_vars

\* C17: every check of a scheduled cycle uses, as its required collateral
\* ratio, the governance liquidationThreshold that was in force when the
\* cycle started.
C17_CycleUsesGovernanceThreshold ==
    \A t \in DOMAIN tasks :
        (tasks[t].kind = "cycle" /\ tasks[t].check # NoCheck)
        => tasks[t].check.requiredCollateralRatio = tasks[t].inForce

\* The four terms maxAmount is the minimum of, in 1/MaxAmountScale of a thousand
\* dollars, for composite score s (in hundredths) and inputs f.
C18_Terms(s, f) ==
    { 3 * f.loanAmount * (IF 10000 - s < 1000 THEN 1000 ELSE 10000 - s),
      2 * f.totalBorrowed * MaxAmountScale,
      IF f.collateralRatio <= 0 THEN f.loanAmount * MaxAmountScale
                                ELSE 200 * f.loanAmount * f.collateralRatio,
      HardCap * MaxAmountScale }

\* C18 as stated: maxAmount is the minimum of loanAmount * max(0.1, 1 - score /
\* 100), 2 * totalBorrowed, loanAmount * collateralRatio / 1.5 (loanAmount when
\* collateralRatio <= 0) and 2,000,000; it never exceeds 2,000,000 and never
\* exceeds loanAmount, for every input.
C18_MaxAmountAtMostLoanAmount ==
    assessment # NoResult
    => LET terms == C18_Terms(compositeScore(factors), factors)
       IN  /\ assessment.maxAmount \in terms
           /\ \A x \in terms : assessment.maxAmount <= x
           /\ assessment.maxAmount <= HardCap * MaxAmountScale
           /\ assessment.maxAmount <= factors.loanAmount * MaxAmountScale

\* C18 (amended): maxAmount is the minimum of the four terms and never exceeds
\* 2,000,000 for every input; it does not exceed loanAmount when loanAmount >= 0.
C18_MaxAmountCaps ==
    assessment # NoResult
    => LET terms == C18_Terms(compositeScore(factors), factors)
       IN  /\ assessment.maxAmount \in terms
           /\ \A x \in terms : assessment.maxAmount <= x
           /\ assessment.maxAmount <= HardCap * MaxAmountScale
           /\ factors.loanAmount >= 0
              => assessment.maxAmount <= factors.loanAmount * MaxAmountScale

\* C18 witness: an assessment whose maxAmount is the 2,000,000 hard cap, every
\* other term being larger.
C18_Witness ==
    /\ assessment # NoResult
    /\ assessment.maxAmount = HardCap * MaxAmountScale
    /\ 2 * factors.totalBorrowed > HardCap
    /\ factors.loanAmount > 10 * HardCap
    /\ factors.collateralRatio >= 150

(***************************************************************************)
(* The liquidation scenario: liquidateLoan called on a loan with debt 1000 *)
(* and collateral 900.                                                     *)
(***************************************************************************)

ScenarioInit ==
    /\ factors = NoFactors
    /\ assessment = NoResult
    /\ LendingInit
    /\ GovernanceInit
    /\ MagicBlockInit
    /\ repo \in [LoanIds -> {ScenarioRow, CoveredRow}]
    /\ tasks = [t \in Tasks |-> IdleTask]
    /\ runs = 0
    /\ transfers = [l \in LoanIds |-> [k \in Kinds |-> 0]]

ScenarioNext ==
    \E t \in Tasks :
        \/ LiquidateLoan(t) /\ UNCHANGED <<magicVars, governanceVars, riskVars, lendingVars>>
        \/ SeizeCollateral(t) /\ UNCHANGED <<magicVars, governanceVars, riskVars, lendingVars>>
        \/ CommitLiquidation(t) /\ UNCHANGED <<magicVars, governanceVars, riskVars, lendingVars>>

ScenarioSpec == ScenarioInit /\ [][ScenarioNext]_vars

\* C19: liquidateLoan called with liquidationAmount 166.67 on a loan with
\* debtAmount 1000 whose collateral is worth 900 takes the full path, seizes
\* 175, and the result it returns reports remainingDebt = debtAmount - 175.
C19_FullPathReportsDebtLessSeizure ==
    [][\A t \in DOMAIN tasks :
         (/\ tasks[t].pc = "commit"
          /\ tasks[t].kind = "direct"
          /\ tasks[t].amount = 16667
          /\ tasks[t].loans[1].remainingAmount = 100000
          /\ tasks[t].loans[1].collateralValue = 90000
          /\ tasks'[t].pc = "done"
          /\ tasks'[t].result # NoLiquidationResult
          /\ tasks'[t].result.success)
         => /\ tasks[t].path = "full"
            /\ tasks[t].seized = 17500
            /\ tasks'[t].result.liquidatedAmount = 17500
            /\ tasks'[t].result.remainingDebt = 100000 - 17500]_vars

(***************************************************************************)
(* The real-time operations over the lending service.                      *)
(***************************************************************************)

MagicInit ==
    /\ factors = NoFactors
    /\ assessment = NoResult
    /\ LendingInit
    /\ LiquidationOff
    /\ GovernanceInit
    /\ MagicBlockInit

MagicNext ==
    \/ AcceptLoanOffer /\ UNCHANGED <<magicVars, governanceVars, riskVars, liquidationVars>>
    \/ \E o \in Ops :
        \/ ProcessRealTimeLoanApproval(o)
             /\ UNCHANGED <<governanceVars, riskVars, lendingVars, liquidationVars>>
        \/ ProcessRealTimePayment(o)
             /\ UNCHANGED <<governanceVars, riskVars, lendingVars, liquidationVars>>
        \/ CreateRealTimeLoanOffer(o)
             /\ UNCHANGED <<governanceVars, riskVars, lendingVars, liquidationVars>>
        \/ DelegateAccountToEphemeralRollup(o)
             /\ UNCHANGED <<governanceVars, riskVars, lendingVars, liquidationVars>>
        \/ SendMagicTransaction(o)
             /\ UNCHANGED <<governanceVars, riskVars, lendingVars, liquidationVars>>
        \/ ConfirmMagicTransaction(o)
             /\ UNCHANGED <<governanceVars, riskVars, lendingVars, liquidationVars>>
        \/ ApprovalLendingCall(o) /\ UNCHANGED <<governanceVars, riskVars, liquidationVars>>
        \/ PaymentLendingCall(o) /\ UNCHANGED <<governanceVars, riskVars, liquidationVars>>
        \/ OfferLendingCall(o) /\ UNCHANGED <<governanceVars, riskVars, liquidationVars>>

MagicSpec == MagicInit /\ [][MagicNext]_vars

\* the operation is between its first await and its return or throw
Running(o) == realTimeOps[o].pc \in {"delegate", "send", "confirm", "lending"}

\* A transaction in status 'processing' belongs to a running operation; an
\* operation that returned has returned the stored transaction, 'completed'
\* with the requested type and data; an operation that threw has left its
\* transaction 'failed'.
TransactionStatusMatchesOutcome ==
    /\ \A i \in DOMAIN realTimeTransactions :
          realTimeTransactions[i].status = "processing"
          => \E o \in Ops : Running(o) /\ realTimeOps[o].transactionId = i
    /\ \A o \in Ops :
          LET op == realTimeOps[o]
          IN  /\ op.pc = "returned"
                 => /\ op.result = realTimeTransactions[op.transactionId]
                    /\ op.result.status = "completed"
                    /\ op.result.type = op.type
                    /\ op.result.data = op.data
              /\ op.pc = "threw"
                 => realTimeTransactions[op.transactionId].status = "failed"

\* The step in which the operation's LendingService call ends: the operation
\* returns with its transaction 'completed' when the call changed the lending
\* maps, and throws with its transaction 'failed' when it did not.
LendingCallDecidesOutcome ==
    \A o \in Ops :
        (realTimeOps[o].pc = "lending" /\ realTimeOps'[o].pc # "lending")
        => LET id == realTimeOps[o].transactionId
           IN  IF <<loanApplications, loanOffers, activeLoans>>'
                    # <<loanApplications, loanOffers, activeLoans>>
               THEN /\ realTimeOps'[o].pc = "returned"
                    /\ realTimeTransactions'[id].status = "completed"
               ELSE /\ realTimeOps'[o].pc = "threw"
                    /\ realTimeTransactions'[id].status = "failed"

\* C20: a real-time transaction is 'processing' only while its operation
\* runs; when the operation returns, the returned and stored transaction is
\* 'completed' with the requested type and data; when a step (delegation, send,
\* confirm or the LendingService call) fails, the stored transaction ends
\* 'failed' and the operation throws.
C20_TransactionStatusFollowsOperation ==
    []TransactionStatusMatchesOutcome /\ [][LendingCallDecidesOutcome]_vars

\* C20 witness: an operation threw because its LendingService call failed after
\* the transaction had been marked 'completed', and another operation returned
\* its 'completed' transaction.
C20_Witness ==
    \E o, r \in Ops :
        /\ realTimeOps[o].pc = "threw"
        /\ realTimeOps[o].failedAt = "lending"
        /\ realTimeTransactions[realTimeOps[o].transactionId].transactionHash = "signature"
        /\ realTimeTransactions[realTimeOps[o].transactionId].status = "failed"
        /\ realTimeOps[r].pc = "returned"
        /\ realTimeOps[r].result.status = "completed"

\* C21: an application's status is set to approved or rejected by the risk
\* result at submission, changes from approved to active only in a successful
\* acceptLoanOffer, and changes from active to repaid when its loan is fully
\* repaid; a rejected application has no offer and no loan and never becomes
\* active; amount and interestRate never change after creation.
C21_ApplicationLifecycle ==
    [][/\ \A i \in DOMAIN loanApplications :
            LET old == loanApplications[i]
                new == loanApplications'[i]
            IN  /\ new.amount = old.amount
                /\ new.interestRate = old.interestRate
                /\ new.status # old.status
                   => \/ /\ old.status = "approved"
                         /\ new.status = "active"
                         /\ lendingCall'.op = "accept"
                         /\ lendingCall'.ok
                      \/ /\ old.status = "active"
                         /\ new.status = "repaid"
       /\ \A i \in DOMAIN loanApplications' \ DOMAIN loanApplications :
            LET new == loanApplications'[i]
            IN  new.status = IF new.riskAssessment.approved THEN "approved"
                             ELSE "rejected"
       /\ \A i \in DOMAIN loanApplications' :
            loanApplications'[i].status = "rejected"
            => /\ \A k \in DOMAIN loanOffers' : loanOffers'[k].loanApplicationId # i
               /\ \A l \in DOMAIN activeLoans' : activeLoans'[l].loanApplicationId # i
       /\ \A l \in DOMAIN activeLoans :
            (activeLoans[l].status = "active" /\ activeLoans'[l].status = "repaid")
            => loanApplications'[activeLoans[l].loanApplicationId].status = "repaid"]_vars

\* C22: a successful liquidateLoan(loan, liquidationAmount), with totalDue =
\* 1.05 * liquidationAmount, takes the partial path when the collateral value
\* fetched inside it is below totalDue (seizing 95% of that value and storing
\* remainingAmount = max(0, remainingAmount - seized)) and the full path
\* otherwise (seizing totalDue and storing remainingAmount = 0); in both paths
\* the status becomes liquidated and the result's liquidatedAmount and
\* remainingDebt are the seized amount and the stored remainingAmount.
C22_PartialAndFullPaths ==
    [][\A t \in DOMAIN tasks :
         LET task == tasks[t]
             loan == task.loans[task.idx]
             totalDue == task.amount + (task.amount * 5) \div 100
         IN  /\ (task.pc = "seize" /\ tasks'[t].pc = "commit")
                => \E collateralValue \in getCurrentCollateralValue(loan) :
                      IF collateralValue < totalDue
                      THEN /\ tasks'[t].path = "partial"
                           /\ tasks'[t].seized = (collateralValue * 95) \div 100
                      ELSE /\ tasks'[t].path = "full"
                           /\ tasks'[t].seized = totalDue
             /\ (/\ task.pc = "commit"
                 /\ tasks'[t].result # NoLiquidationResult
                 /\ tasks'[t].result.success)
                => /\ repo'[loan.id].status = "liquidated"
                   /\ repo'[loan.id].remainingAmount =
                         (IF task.path = "partial"
                          THEN (IF loan.remainingAmount - task.seized < 0 THEN 0
                                ELSE loan.remainingAmount - task.seized)
                          ELSE 0)
                   /\ tasks'[t].result.liquidatedAmount = task.seized
                   /\ tasks'[t].result.remainingDebt = repo'[loan.id].remainingAmount]_vars

\* C23: computing a LiquidationCheck has no side effect on loan state: no
\* step of a getLiquidationStatus invocation changes a loan's status or
\* remainingAmount or executes a seizure transfer.
C23_StatusQueryLeavesLoansAlone ==
    [][\A t \in DOMAIN tasks :
         (tasks[t].kind = "status" /\ tasks'[t] # tasks[t]
            /\ tasks[t].pc \notin {"idle", "done"})
         => /\ transfers' = transfers
            /\ \A l \in DOMAIN repo :
                  /\ repo'[l].status = repo[l].status
                  /\ repo'[l].remainingAmount = repo[l].remainingAmount]_vars

\* C24: a successful processLoanPayment(loanId, amount) sets remainingAmount
\* to max(0, remainingAmount - (amount - remainingAmount * interestRate / 12));
\* when the new remainingAmount is 0 the status becomes repaid and
\* completedPayments is not incremented; otherwise the status stays active,
\* nextPaymentDate advances by one month and completedPayments increases by 1.
C24_PaymentEffect ==
    [][(lendingCall'.op = "payment" /\ lendingCall'.ok /\ now' = now)
       => LET old == activeLoans[lendingCall'.id]
              new == activeLoans'[lendingCall'.id]
          IN  /\ \E paymentAmount \in PaymentAmounts :
                    LET monthlyInterest ==
                            MulDiv(old.remainingAmount, old.interestRate, 120000)
                        rest == old.remainingAmount - (paymentAmount - monthlyInterest)
                    IN  new.remainingAmount = IF rest < 0 THEN 0 ELSE rest
              /\ IF new.remainingAmount = 0
                 THEN /\ new.status = "repaid"
                      /\ new.completedPayments = old.completedPayments
                 ELSE /\ new.status = "active"
                      /\ new.nextPaymentDate = old.nextPaymentDate + MonthHours
                      /\ new.completedPayments = old.completedPayments + 1]_vars

\* C25: the ActiveLoan created by acceptLoanOffer has totalPayments =
\* ceil(application.duration / 30), a whole number that is at least 1 for a
\* positive duration, and completedPayments = 0.  (totalPayments is kept in
\* thirtieths: a whole number n of payments is 30 * n.)
C25_TotalPaymentsIsCeiling ==
    [][\A l \in DOMAIN activeLoans' \ DOMAIN activeLoans :
         LET loan == activeLoans'[l]
             duration == loanApplications[loan.loanApplicationId].duration
         IN  /\ loan.totalPayments = 30 * ((duration + 29) \div 30)
             /\ duration > 0 => loan.totalPayments >= 30
             /\ loan.completedPayments = 0]_vars

(***************************************************************************)
(* The scheduled cycle, started again and again                            *)
(* The cron job starts performLiquidationChecks every five minutes; one    *)
(* cycle runs at a time here.  An awaited call returns or rejects; the     *)
(* repository and the transfer do not reject for ever. Nothing is assumed  *)
(* of the monitoring sink.                                                 *)
(***************************************************************************)

RetryNext ==
    \/ performLiquidationChecks(1)
         /\ UNCHANGED <<runs, magicVars, governanceVars, riskVars, lendingVars>>
    \/ CheckLoanForLiquidation(1) /\ UNCHANGED <<magicVars, governanceVars, riskVars, lendingVars>>
    \/ SeizeCollateral(1) /\ UNCHANGED <<magicVars, governanceVars, riskVars, lendingVars>>
    \/ CommitLiquidation(1) /\ UNCHANGED <<magicVars, governanceVars, riskVars, lendingVars>>

\* activeLoanRepository.find returned the list
ListSucceeds == RetryNext /\ tasks[1].pc \in {"idle", "done"} /\ tasks'[1].outcome # "aborted"

\* the repository update of checkLoanForLiquidation (lines 93-96) was written:
\* a loan that needs liquidation is flagged, and the check of a loan that does
\* not need it does not abort the cycle
CheckUpdateSucceeds ==
    /\ RetryNext
    /\ tasks[1].pc = "check"
    /\ IF tasks'[1].check.needsLiquidation
       THEN tasks'[1].flagged # tasks[1].flagged
       ELSE tasks'[1].outcome # "aborted"

\* executeLiquidation returned
TransferSucceeds == RetryNext /\ tasks[1].pc = "seize" /\ tasks'[1].pc = "commit"

\* the repository update of liquidateLoan was written
CommitUpdateSucceeds == RetryNext /\ tasks[1].pc = "commit" /\ repo' # repo

RetryFairness ==
    /\ WF_vars(RetryNext)
    /\ SF_vars(ListSucceeds)
    /\ SF_vars(CheckUpdateSucceeds)
    /\ SF_vars(TransferSucceeds)
    /\ SF_vars(CommitUpdateSucceeds)

RetrySpec == LiquidationSpecInit /\ [][RetryNext]_vars /\ RetryFairness

\* the monitoring sink recorded 'liquidation_required' (line 101)
SinkSucceeds == RetryNext /\ tasks[1].pc = "check" /\ tasks'[1].pc = "seize"

\* RetrySpec with a sink that does not reject for ever
RetrySpecFairSink == RetrySpec /\ SF_vars(SinkSucceeds)

\* every value the price feed can return for the loan leaves its collateral
\* ratio below the required ratio
StaysBelow(l) ==
    /\ repo[l].remainingAmount > 0
    /\ \A v \in getCurrentCollateralValue(repo[l]) :
          100 * v < LIQUIDATION_THRESHOLD * repo[l].remainingAmount

\* C26: a liquidation that failed for a transfer failure is retried by a later
\* cycle: with cycles started again and again and the transfer eventually
\* succeeding, an active loan whose collateral ratio stays below the required
\* ratio is eventually liquidated; and a failed transfer leaves every loan's
\* status as it was, so later cycles still list the loan.
C26_FailedLiquidationIsRetried ==
    /\ \A l \in LoanIds :
          (repo[l].status = "active" /\ StaysBelow(l)) ~> (repo[l].status = "liquidated")
    /\ [][(tasks[1].pc = "seize" /\ tasks'[1].pc # "commit" /\ tasks'[1] # tasks[1])
          => \A l \in LoanIds : repo'[l].status = repo[l].status]_vars

\* C27: one call of triggerLiquidation executes exactly one collateral seizure:
\* the invocation executes no transfer once a liquidateLoan of its own has
\* returned success, and an invocation whose check finds the loan not to need
\* liquidation fails without a transfer.
C27_TriggerSeizesOnce ==
    [][\A t \in DOMAIN tasks :
         /\ (/\ tasks[t].kind = "trigger"
             /\ tasks[t].pc = "seize"
             /\ tasks'[t].pc = "commit")
            => (tasks[t].result = NoLiquidationResult \/ ~tasks[t].result.success)
         /\ (/\ tasks[t].kind = "trigger"
             /\ tasks[t].pc = "check"
             /\ tasks'[t] # tasks[t]
             /\ ~tasks'[t].check.needsLiquidation)
            => /\ tasks'[t].outcome = "threw"
               /\ transfers' = transfers]_vars

\* C28: at most one ActiveLoan exists per LoanApplication: two loans of the
\* same application are the same loan.
C28_OneLoanPerApplication ==
    \A l1 \in DOMAIN activeLoans, l2 \in DOMAIN activeLoans :
        activeLoans[l1].loanApplicationId = activeLoans[l2].loanApplicationId
            => l1 = l2

\* C29: in every reachable state every loan's remainingAmount is at least 0
\* and a repaid loan's remainingAmount is 0, in the lending service's loans
\* (written by payments) and in the repository (written by liquidation cycles,
\* status queries and manual triggers).
C29_RemainingAmountNonNegative ==
    /\ \A l \in DOMAIN activeLoans :
          /\ activeLoans[l].remainingAmount >= 0
          /\ activeLoans[l].status = "repaid" => activeLoans[l].remainingAmount = 0
    /\ \A l \in DOMAIN repo :
          /\ repo[l].remainingAmount >= 0
          /\ repo[l].status = "repaid" => repo[l].remainingAmount = 0

\* a payment larger than debt plus interest has just repaid a loan
C29_Witness ==
    \E l \in DOMAIN activeLoans :
        /\ lendingCall = [op |-> "payment", id |-> l, ok |-> TRUE]
        /\ activeLoans[l].status = "repaid"
        /\ activeLoans[l].remainingAmount = 0
        /\ activeLoans[l].principalAmount > 0

\* C30: every application submitLoanApplication stores with status approved
\* has collateralRatio >= 1.1, and the stored status is approved exactly when
\* the stored riskAssessment.approved is true.
C30_ApprovedMeetsCollateralRule ==
    [][(lendingCall'.op = "submit" /\ Len(loanApplications') = Len(loanApplications) + 1)
       => LET application == loanApplications'[Len(loanApplications')]
          IN  /\ application.status = "approved" => application.collateralRatio >= 110
              /\ application.status = "approved" <=> application.riskAssessment.approved]_vars

====
